---- MODULE Spec2Model ----
(***************************************************************************)
(* Model of scripts/vkcapture_exe_override.c: an LD_PRELOAD interposer for *)
(* readlink(2) and readlinkat(2) that rewrites the basename of the target  *)
(* of "/proc/self/exe" when OBS_VKCAPTURE_EXE_NAME is set.                 *)
(*                                                                         *)
(* C strings are sequences of one-character strings (without the NUL).     *)
(* A caller buffer of capacity n is a sequence of n cells, each holding a  *)
(* byte or the marker Untouched.  A wrapper call is split at its accesses  *)
(* to the two process-wide function pointers, so that calls of several     *)
(* threads interleave exactly where the C code lets them.                  *)
(***************************************************************************)
EXTENDS Integers, Sequences, FiniteSets, TLC

VARIABLES
    real_readlink_fn,    \* static pointer, line 10
    real_readlinkat_fn,  \* static pointer, line 11
    environ,             \* what getenv("OBS_VKCAPTURE_EXE_NAME") gives
    exeLink,             \* what the kernel makes of /proc/self/exe: a target, or an error
    dlAvail,             \* which symbols dlsym(RTLD_NEXT, .) can find
    thr,                 \* per thread: position in the wrapper, arguments, locals, result
    lookupsBy,           \* history: dlsym calls made, per thread and symbol
    stores,              \* history: values assigned to each static pointer, in order
    ncalls               \* history: wrapper calls started

vars == <<real_readlink_fn, real_readlinkat_fn, environ, exeLink, dlAvail,
          thr, lookupsBy, stores, ncalls>>

----------------------------------------------------------------------------
(* Bounds of the model *)

NThreads == 2
MaxCalls == 2

(* Program constants *)

PATH_MAX == 4096

----------------------------------------------------------------------------
(* Values *)

NULL == "NULL"
(* a const char * argument: the null pointer, or a pointer to a string *)
NullStr == [null |-> TRUE, str |-> <<>>]
Str(s) == [null |-> FALSE, str |-> s]
Untouched == "?"
AT_FDCWD == "AT_FDCWD"
FdProcSelf == "fd:/proc/self"
Syms == {"readlink", "readlinkat"}
Threads == 1..NThreads

Min(a, b) == IF a < b THEN a ELSE b
Rep(c, n) == [i \in 1..n |-> c]
Take(s, n) == SubSeq(s, 1, Min(Len(s), n))

ProcSelfExe == <<"/","p","r","o","c","/","s","e","l","f","/","e","x","e">>
ProcSelfDotExe == <<"/","p","r","o","c","/","s","e","l","f","/",".","/","e","x","e">>
RelExe == <<"e","x","e">>
Missing == <<"/","n","o","n","e">>

UsrBinRealprog == <<"/","u","s","r","/","b","i","n","/","r","e","a","l","p","r","o","g">>
UsrBinFakeprog == <<"/","u","s","r","/","b","i","n","/","f","a","k","e","p","r","o","g">>
SlashRealprog == <<"/","r","e","a","l","p","r","o","g">>
SlashFakeprog == <<"/","f","a","k","e","p","r","o","g">>
Realprog == <<"r","e","a","l","p","r","o","g">>
Fakeprog == <<"f","a","k","e","p","r","o","g">>
(* a target of the greatest length the inner call can report, PATH_MAX-1 *)
DeepTarget == <<"/">> \o Rep("d", PATH_MAX - 6) \o <<"/","b","i","n">>
(* an override longer than the internal buffer *)
HugeOverride == Rep("x", PATH_MAX + 4)

Paths == {NullStr, Str(ProcSelfExe), Str(ProcSelfDotExe), Str(RelExe), Str(Missing)}
Targets == {UsrBinRealprog, SlashRealprog, Realprog, DeepTarget}
(* getenv gives the null pointer when the variable is unset *)
Overrides == {NullStr, Str(<<>>), Str(Fakeprog), Str(HugeOverride)}
BufSizes == {0, 4, 17, PATH_MAX + 8}
DirFds == {AT_FDCWD, FdProcSelf}

----------------------------------------------------------------------------
(* The platform: the original implementations found behind RTLD_NEXT *)

Link(target) == [ok |-> TRUE, target |-> target, err |-> "E0"]
NoLink == [ok |-> FALSE, target |-> <<>>, err |-> "ENOENT"]

(* What the kernel resolves a link to.  A relative path is taken from the  *)
(* working directory by readlink, from dirfd by readlinkat.                *)
ResolveLink(dirfd, path) ==
    CASE path = ProcSelfExe -> exeLink
      [] path = ProcSelfDotExe -> exeLink
      [] path = RelExe /\ dirfd = FdProcSelf -> exeLink
      [] OTHER -> NoLink

(* memcpy(mem, src, n) into a buffer of Len(mem) cells *)
Memcpy(mem, src, n) ==
    SubSeq(src, 1, n) \o SubSeq(mem, n + 1, Len(mem))

(* The original readlinkat(dirfd, path, buf, bufsiz) called with the       *)
(* buffer contents mem and the thread's errno e: the result, the buffer    *)
(* and errno afterwards.                                                   *)
libc_readlinkat(dirfd, path, buf, bufsiz, mem, e) ==
    LET r == ResolveLink(dirfd, path.str)
        n == Min(Len(r.target), bufsiz)
    IN  IF bufsiz = 0 THEN [ret |-> -1, mem |-> mem, errno |-> "EINVAL"]
        ELSE IF path.null THEN [ret |-> -1, mem |-> mem, errno |-> "EFAULT"]
        ELSE IF ~r.ok THEN [ret |-> -1, mem |-> mem, errno |-> r.err]
        ELSE IF buf = NULL THEN [ret |-> -1, mem |-> mem, errno |-> "EFAULT"]
        ELSE [ret |-> n, mem |-> Memcpy(mem, r.target, n), errno |-> e]

(* The original readlink(path, buf, bufsiz) *)
libc_readlink(path, buf, bufsiz, mem, e) ==
    libc_readlinkat(AT_FDCWD, path, buf, bufsiz, mem, e)

(* dlsym(RTLD_NEXT, name): the next definition of name, or NULL *)
dlsym(name) ==
    IF dlAvail[name] THEN (IF name = "readlink" THEN "libc_readlink" ELSE "libc_readlinkat")
    ELSE NULL

(* A call through a cached function pointer fp.  The pointer decides which *)
(* implementation runs; a readlink implementation takes no dirfd.          *)
CallThrough(fp, dirfd, path, buf, bufsiz, mem, e) ==
    IF fp = "libc_readlink" THEN libc_readlink(path, buf, bufsiz, mem, e)
    ELSE libc_readlinkat(dirfd, path, buf, bufsiz, mem, e)

----------------------------------------------------------------------------
(* build_override, lines 37-58 *)

(* strrchr(s, '/') as a 1-based index, 0 for the null pointer *)
strrchr(s) ==
    LET at == {i \in 1..Len(s) : s[i] = "/"}
    IN  IF at = {} THEN 0 ELSE CHOOSE i \in at : \A j \in at : j <= i

(* variant: sprintf, which does not bound what it writes *)
snprintf_Unbounded(size, full) == full

(* snprintf(out, size, ...) of the full text: what out holds afterwards *)
snprintf(size, full) == Take(full, size - 1)

(* variant: the directory part keeps its trailing separator *)
FormatOut_KeepSlash(real_path, override) ==
    LET slash == strrchr(real_path)
    IN  IF slash # 0
        THEN snprintf(PATH_MAX, SubSeq(real_path, 1, slash) \o <<"/">> \o override)
        ELSE snprintf(PATH_MAX, override)

(* lines 40-50: the contents of out *)
FormatOut(real_path, override) ==
    LET slash == strrchr(real_path)
        dir_len == slash - 1
    IN  IF slash # 0
        THEN IF dir_len = 0
             THEN snprintf(PATH_MAX, <<"/">> \o override)
             ELSE snprintf(PATH_MAX, SubSeq(real_path, 1, dir_len) \o <<"/">> \o override)
        ELSE snprintf(PATH_MAX, override)

(* variant: the capacity of the destination is ignored *)
CopyLen_NoCap(out_len, bufsiz) == out_len

(* line 53 *)
CopyLen(out_len, bufsiz) == IF out_len < bufsiz THEN out_len ELSE bufsiz

(* line 54: whether memcpy runs *)
DoCopy(copy_len, buf) == copy_len > 0 /\ buf # NULL

(* lines 37-58: result, caller buffer afterwards, the internal buffer, and *)
(* whether a write went through a null pointer or past the buffer          *)
build_override(real_path, override, buf, bufsiz, mem) ==
    LET out == FormatOut(real_path, override)
        copy_len == CopyLen(Len(out), bufsiz)
        copies == DoCopy(copy_len, buf)
    IN  [ret |-> copy_len,
         mem |-> IF copies /\ buf # NULL THEN Memcpy(mem, out, copy_len) ELSE mem,
         out |-> out,
         fault |-> copies /\ (buf = NULL \/ copy_len > Len(mem))]

----------------------------------------------------------------------------
(* The interposer's state *)

(* the static pointer that caches symbol s, lines 10-11 *)
Cache(s) == IF s = "readlink" THEN real_readlink_fn ELSE real_readlinkat_fn

(* a thread outside the wrappers *)
IdleThread ==
    [pc |-> "idle", fn |-> "readlink", dirfd |-> AT_FDCWD, path |-> NullStr,
     buf |-> NULL, bufsiz |-> 0, fast |-> TRUE,
     ret |-> 0, errno |-> "E0", ubuf |-> <<>>, fault |-> FALSE,
     looked |-> 0, stored |-> 0, invoked |-> 0, warm |-> FALSE,
     inner |-> [ret |-> 0, errno |-> "E0"], synth |-> FALSE, out |-> <<>>]

(* the process's environment and executable: every short pairing, the    *)
(* pairings whose synthesized path is longer than the internal buffer,    *)
(* and a process whose /proc/self/exe cannot be read                      *)
ProcessCases ==
    ((Overrides \ {Str(HugeOverride)}) \X {Link(r) : r \in Targets \ {DeepTarget}})
    \cup {<<Str(Fakeprog), Link(DeepTarget)>>, <<Str(HugeOverride), Link(Realprog)>>,
          <<Str(Fakeprog), NoLink>>}

(* the arguments of a call: readlink takes no dirfd *)
Args ==
    {a \in [fn : Syms, dirfd : DirFds, path : Paths, buf : {NULL, "valid"},
            bufsiz : BufSizes] : a.fn = "readlink" => a.dirfd = AT_FDCWD}

(* the calls threads race with: both wrappers, on the reserved path *)
ArgsMT ==
    {a \in [fn : Syms, dirfd : {AT_FDCWD}, path : {NullStr, Str(ProcSelfExe)},
            buf : {"valid"}, bufsiz : {4}] : TRUE}

TypeOK ==
    /\ real_readlink_fn \in {NULL, "libc_readlink", "libc_readlinkat"}
    /\ real_readlinkat_fn \in {NULL, "libc_readlink", "libc_readlinkat"}
    /\ dlAvail \in [Syms -> BOOLEAN]
    /\ ncalls \in Nat
    /\ \A t \in Threads : thr[t].pc \in {"idle", "check", "dlsym", "invoke", "done"}

Init ==
    /\ real_readlink_fn = NULL
    /\ real_readlinkat_fn = NULL
    /\ \E p \in ProcessCases : environ = p[1] /\ exeLink = p[2]
    /\ dlAvail \in [Syms -> BOOLEAN]
    /\ thr = [t \in Threads |-> IdleThread]
    /\ lookupsBy = [t \in Threads |-> [s \in Syms |-> 0]]
    /\ stores = [s \in Syms |-> <<>>]
    /\ ncalls = 0

InitMT ==
    /\ real_readlink_fn = NULL
    /\ real_readlinkat_fn = NULL
    /\ environ \in {NullStr, Str(Fakeprog)}
    /\ exeLink = Link(UsrBinRealprog)
    /\ dlAvail \in [Syms -> BOOLEAN]
    /\ thr = [t \in Threads |-> IdleThread]
    /\ lookupsBy = [t \in Threads |-> [s \in Syms |-> 0]]
    /\ stores = [s \in Syms |-> <<>>]
    /\ ncalls = 0

----------------------------------------------------------------------------
(* The wrappers readlink (lines 60-80) and readlinkat (lines 82-102) *)

(* variant: the test for an empty override is left out *)
IsFastPath_NoEmptyTest(override, path) ==
    override.null \/ path.str # ProcSelfExe

(* lines 68 and 90: the condition of the pass-through return *)
IsFastPath(override, path) ==
    override.null \/ override.str = <<>> \/ path.str # ProcSelfExe

(* variant: the null check is left out *)
PathIsNull_Unchecked(path) == FALSE

(* lines 62 and 84 *)
PathIsNull(path) == path.null

(* variant: the second null test of the helper is left out *)
FnMissing_Unchecked(fp) == FALSE

(* lines 18 and 30: no original to call *)
FnMissing(fp) == fp = NULL

(* variant: the failure of the inner call is not noticed *)
InnerFailed_Unchecked(n) == FALSE

(* lines 74 and 96 *)
InnerFailed(n) == n < 0

(* variant: the helper looks the symbol up on every call *)
NeedLookup_Always(fp) == TRUE

(* lines 15 and 27: whether the lookup is made *)
NeedLookup(fp) == fp = NULL

(* lines 16 and 28: the name handed to dlsym by the helper of wrapper fn *)
LookupName(fn) == fn

(* lines 73 and 95: the capacity given to the inner call *)
InnerBufsiz == PATH_MAX - 1

(* lines 60-68 and 82-90: entry, the null-path check, getenv and the     *)
(* choice of the path taken; the caller has cleared errno.  The local     *)
(* override points into the environment, which environ stands for.        *)
Call(t, a) ==
    /\ thr[t].pc = "idle"
    /\ ncalls < MaxCalls
    /\ ncalls' = ncalls + 1
    /\ LET fresh == [IdleThread EXCEPT
                        !.fn = a.fn, !.dirfd = a.dirfd, !.path = a.path,
                        !.buf = a.buf, !.bufsiz = a.bufsiz,
                        !.ubuf = IF a.buf = NULL THEN <<>> ELSE Rep(Untouched, a.bufsiz),
                        !.warm = Cache(a.fn) # NULL]
       IN  thr' = [thr EXCEPT ![t] =
                IF PathIsNull(a.path)
                THEN [fresh EXCEPT !.pc = "done", !.ret = -1, !.errno = "EINVAL"]
                ELSE [fresh EXCEPT !.pc = "check",
                                   !.fast = IsFastPath(environ, a.path)]]
    /\ UNCHANGED <<real_readlink_fn, real_readlinkat_fn, environ, exeLink, dlAvail,
                   lookupsBy, stores>>

(* lines 15 and 27: the helper reads the static pointer *)
CheckCache(t) ==
    /\ thr[t].pc = "check"
    /\ thr' = [thr EXCEPT ![t].pc =
                  IF NeedLookup(Cache(thr[t].fn)) THEN "dlsym" ELSE "invoke"]
    /\ UNCHANGED <<real_readlink_fn, real_readlinkat_fn, environ, exeLink, dlAvail,
                   lookupsBy, stores, ncalls>>

(* lines 16 and 28: dlsym, and the store of its result *)
Lookup(t) ==
    /\ thr[t].pc = "dlsym"
    /\ LET s == thr[t].fn
           fp == dlsym(LookupName(s))
       IN  /\ real_readlink_fn' = IF s = "readlink" THEN fp ELSE real_readlink_fn
           /\ real_readlinkat_fn' = IF s = "readlinkat" THEN fp ELSE real_readlinkat_fn
           /\ lookupsBy' = [lookupsBy EXCEPT ![t][s] = @ + 1]
           /\ stores' = [stores EXCEPT ![s] = Append(@, fp)]
           /\ thr' = [thr EXCEPT ![t].pc = "invoke", ![t].looked = @ + 1,
                                 ![t].stored = @ + 1]
    /\ UNCHANGED <<environ, exeLink, dlAvail, ncalls>>

(* lines 18-22 and 30-34, then the rest of the wrapper: the pass-through  *)
(* return (69, 91), or the inner call, its failure check, the terminator  *)
(* and build_override (72-79, 94-101)                                     *)
Invoke(t) ==
    /\ thr[t].pc = "invoke"
    /\ LET c == thr[t]
           fp == Cache(c.fn)
           direct == CallThrough(fp, c.dirfd, c.path, c.buf, c.bufsiz, c.ubuf, c.errno)
           scratch == Rep(Untouched, PATH_MAX)
           n == CallThrough(fp, c.dirfd, c.path, "valid", InnerBufsiz, scratch, c.errno)
           real_path == SubSeq(n.mem, 1, n.ret)
           b == build_override(real_path, environ.str, c.buf, c.bufsiz, c.ubuf)
       IN  thr' = [thr EXCEPT ![t] =
             IF FnMissing(fp)
             THEN [c EXCEPT !.pc = "done", !.ret = -1, !.errno = "ENOSYS"]
             ELSE IF c.fast
             THEN [c EXCEPT !.pc = "done", !.invoked = @ + 1, !.ret = direct.ret,
                            !.errno = direct.errno, !.ubuf = direct.mem]
             ELSE IF InnerFailed(n.ret)
             THEN [c EXCEPT !.pc = "done", !.invoked = @ + 1, !.ret = n.ret,
                            !.errno = n.errno,
                            !.inner = [ret |-> n.ret, errno |-> n.errno]]
             ELSE [c EXCEPT !.pc = "done", !.invoked = @ + 1, !.ret = b.ret,
                            !.errno = n.errno, !.ubuf = b.mem,
                            !.fault = b.fault \/ n.ret >= PATH_MAX,
                            !.inner = [ret |-> n.ret, errno |-> n.errno],
                            !.synth = TRUE, !.out = b.out]]
    /\ UNCHANGED <<real_readlink_fn, real_readlinkat_fn, environ, exeLink, dlAvail,
                   lookupsBy, stores, ncalls>>

(* lines 64, 69, 75, 79 and their twins: the wrapper returns, and the    *)
(* caller is done with the result                                         *)
Return(t) ==
    /\ thr[t].pc = "done"
    /\ thr' = [thr EXCEPT ![t] = IdleThread]
    /\ UNCHANGED <<real_readlink_fn, real_readlinkat_fn, environ, exeLink, dlAvail,
                   lookupsBy, stores, ncalls>>

(* one thread making calls one after another *)
Next ==
    \/ \E a \in Args : Call(1, a)
    \/ CheckCache(1)
    \/ Lookup(1)
    \/ Invoke(1)
    \/ Return(1)

Spec == Init /\ [][Next]_vars

(* several threads, their calls interleaved *)
NextMT ==
    \/ \E t \in Threads : \E a \in ArgsMT : Call(t, a)
    \/ \E t \in Threads : CheckCache(t)
    \/ \E t \in Threads : Lookup(t)
    \/ \E t \in Threads : Invoke(t)
    \/ \E t \in Threads : Return(t)

SpecMT == InitMT /\ [][NextMT]_vars

----------------------------------------------------------------------------
(* Properties *)

Done(t) == thr[t].pc = "done"

(* the override is configured and the call names the reserved path *)
OverrideCase(c) ==
    /\ ~environ.null /\ environ.str # <<>>
    /\ ~c.path.null /\ c.path.str = ProcSelfExe

(* the caller's buffer as it was handed in *)
FreshBuf(c) == IF c.buf = NULL THEN <<>> ELSE Rep(Untouched, c.bufsiz)

(* the original implementation of the wrapper called, invoked directly *)
Original(c, buf, bufsiz, mem) ==
    IF c.fn = "readlink" THEN libc_readlink(c.path, buf, bufsiz, mem, "E0")
    ELSE libc_readlinkat(c.dirfd, c.path, buf, bufsiz, mem, "E0")

(* the replacement of R's basename by V, as the contract words it *)
SynthRef(R, V) ==
    LET slashes == {i \in 1..Len(R) : R[i] = "/"}
        last == CHOOSE i \in slashes : \A j \in slashes : j <= i
    IN  IF slashes = {} THEN V
        ELSE IF last = 1 THEN <<"/">> \o V
        ELSE SubSeq(R, 1, last - 1) \o <<"/">> \o V

(* the lookups of symbol s made so far, by all threads *)
RECURSIVE LookupsUpTo(_, _)
LookupsUpTo(n, s) == IF n = 0 THEN 0 ELSE lookupsBy[n][s] + LookupsUpTo(n - 1, s)
Lookups(s) == LookupsUpTo(NThreads, s)

(* C1: on the fast path (the path is not exactly "/proc/self/exe", or the  *)
(* override is unset or empty) the wrapper's return value, the caller's    *)
(* buffer and errno are those of the original implementation called        *)
(* directly with the same arguments.                                       *)
C1_FastPathTransparent ==
    \A t \in Threads :
        LET c == thr[t]
            d == Original(c, c.buf, c.bufsiz, FreshBuf(c))
        IN  (Done(t) /\ ~c.path.null /\ ~OverrideCase(c) /\ dlAvail[c.fn])
            => (c.ret = d.ret /\ c.ubuf = d.mem /\ c.errno = d.errno /\ ~c.synth)

C1_Witness ==
    \E t \in Threads :
        /\ Done(t) /\ thr[t].fn = "readlinkat" /\ thr[t].path = Str(RelExe)
        /\ thr[t].dirfd = FdProcSelf /\ environ = Str(Fakeprog)
        /\ thr[t].ret = 17 /\ thr[t].ubuf = UsrBinRealprog

(* C2 as stated: with a non-empty override V, the reserved path, a real    *)
(* target R and a non-null destination large enough for it, the wrapper    *)
(* writes SynthRef(R, V) and returns its length.                           *)
C2_AsStated ==
    \A t \in Threads :
        LET c == thr[t]
            E == SynthRef(exeLink.target, environ.str)
        IN  (Done(t) /\ OverrideCase(c) /\ dlAvail[c.fn] /\ exeLink.ok
             /\ c.buf # NULL /\ c.bufsiz >= Len(E))
            => (c.ret = Len(E) /\ Take(c.ubuf, Len(E)) = E)

(* C2 amended: the same of the first PATH_MAX-1 bytes of SynthRef(R, V),   *)
(* which is all of it when it is shorter than PATH_MAX; with the three     *)
(* examples of the contract.                                               *)
C2_Substitution ==
    \A t \in Threads :
        LET c == thr[t]
            E == Take(SynthRef(exeLink.target, environ.str), PATH_MAX - 1)
        IN  (Done(t) /\ OverrideCase(c) /\ dlAvail[c.fn] /\ exeLink.ok
             /\ c.buf # NULL /\ c.bufsiz >= Len(E))
            => /\ c.ret = Len(E)
               /\ Take(c.ubuf, Len(E)) = E
               /\ environ.str = Fakeprog =>
                    /\ exeLink.target = UsrBinRealprog =>
                         (c.ret = 17 /\ Take(c.ubuf, 17) = UsrBinFakeprog)
                    /\ exeLink.target = SlashRealprog => Take(c.ubuf, c.ret) = SlashFakeprog
                    /\ exeLink.target = Realprog => Take(c.ubuf, c.ret) = Fakeprog

C2_Witness ==
    \E t \in Threads :
        /\ Done(t) /\ OverrideCase(thr[t]) /\ exeLink.target = UsrBinRealprog
        /\ environ.str = Fakeprog /\ thr[t].bufsiz = 17
        /\ thr[t].ret = 17 /\ thr[t].ubuf = UsrBinFakeprog

(* C3: with a non-null destination of capacity C and a synthesized result  *)
(* of length L, the first min(L, C) bytes of the result are copied, no     *)
(* cell at or beyond min(L, C) is written, and min(L, C) is returned.      *)
C3_Truncation ==
    \A t \in Threads :
        LET c == thr[t]
            E == Take(SynthRef(exeLink.target, environ.str), PATH_MAX - 1)
            m == Min(Len(E), c.bufsiz)
        IN  (Done(t) /\ OverrideCase(c) /\ dlAvail[c.fn] /\ exeLink.ok /\ c.buf # NULL)
            => /\ c.ret = m /\ c.ret <= c.bufsiz
               /\ Len(c.ubuf) = c.bufsiz
               /\ SubSeq(c.ubuf, 1, m) = SubSeq(E, 1, m)
               /\ \A i \in (m + 1)..Len(c.ubuf) : c.ubuf[i] = Untouched
               /\ ~c.fault

C3_Witness ==
    \E t \in Threads :
        /\ Done(t) /\ OverrideCase(thr[t]) /\ thr[t].synth
        /\ exeLink.target = UsrBinRealprog /\ environ.str = Fakeprog
        /\ thr[t].bufsiz = 4 /\ thr[t].ret = 4 /\ thr[t].ubuf = <<"/","u","s","r">>

(* C4: on the override path a null destination with a nonzero capacity     *)
(* gives the return value 0 and no memory write.                           *)
C4_NullBufferReturnsZero ==
    \A t \in Threads :
        LET c == thr[t]
        IN  (Done(t) /\ OverrideCase(c) /\ dlAvail[c.fn] /\ exeLink.ok
             /\ c.buf = NULL /\ c.bufsiz # 0)
            => (c.ret = 0 /\ ~c.fault /\ c.ubuf = <<>>)

(* C5: a null path gives -1 and EINVAL, with no lookup, no store into the  *)
(* cached pointers, no call of an original and no write to the buffer.     *)
C5_NullPath ==
    \A t \in Threads :
        LET c == thr[t]
        IN  (c.pc # "idle" /\ c.path.null)
            => /\ Done(t) /\ c.ret = -1 /\ c.errno = "EINVAL"
               /\ c.looked = 0 /\ c.stored = 0 /\ c.invoked = 0
               /\ c.ubuf = FreshBuf(c) /\ ~c.fault

C5_Witness ==
    \E t \in Threads :
        /\ Done(t) /\ thr[t].path.null /\ thr[t].errno = "EINVAL"
        /\ thr[t].warm /\ thr[t].buf # NULL /\ thr[t].bufsiz = 4
        /\ ~environ.null

(* C6: once a symbol's cached reference is non-null, no later step of any  *)
(* call changes it, and no lookup of that symbol is made again.            *)
C6_IdempotentResolution ==
    [][\A s \in Syms :
         Cache(s) # NULL =>
           /\ (IF s = "readlink" THEN real_readlink_fn' ELSE real_readlinkat_fn') = Cache(s)
           /\ stores'[s] = stores[s]
           /\ \A t \in Threads : lookupsBy'[t][s] = lookupsBy[t][s]]_vars

C6_Witness ==
    \E t \in Threads :
        /\ Done(t) /\ thr[t].warm /\ thr[t].invoked = 1 /\ thr[t].looked = 0
        /\ Len(stores[thr[t].fn]) = 1 /\ ncalls = MaxCalls

(* C7: when the lookup finds no original, a call with a non-null path      *)
(* gives -1 and ENOSYS, calls no original and leaves the buffer unwritten, *)
(* on the fast path and on the override path alike.                        *)
C7_SymbolUnavailable ==
    \A t \in Threads :
        LET c == thr[t]
        IN  (Done(t) /\ ~c.path.null /\ ~dlAvail[c.fn])
            => /\ c.ret = -1 /\ c.errno = "ENOSYS"
               /\ c.invoked = 0 /\ ~c.synth
               /\ c.ubuf = FreshBuf(c) /\ ~c.fault

C7_Witness ==
    \E t \in Threads :
        /\ Done(t) /\ OverrideCase(thr[t]) /\ ~dlAvail[thr[t].fn]
        /\ thr[t].errno = "ENOSYS" /\ thr[t].looked = 1 /\ thr[t].buf # NULL

(* C8 as stated: whatever the interleaving, each symbol is looked up only  *)
(* once, and its cached reference is written at most once.                 *)
C8_AsStated ==
    \A s \in Syms : Lookups(s) <= 1 /\ Len(stores[s]) <= 1

(* C8 amended: when the original can be found, each thread looks a symbol  *)
(* up at most once (threads racing on the first use may each do so); a     *)
(* lookup is made only by a call that read the cached reference as null,   *)
(* at most once per call; and every write stores what the lookup of that   *)
(* symbol yields, so the cache never holds anything else.                  *)
C8_PerThreadLookup ==
    \A s \in Syms :
        /\ \A t \in Threads :
              /\ dlAvail[s] => lookupsBy[t][s] <= 1
              /\ thr[t].looked <= 1
              /\ thr[t].looked = thr[t].stored
        /\ \A i \in 1..Len(stores[s]) : stores[s][i] = dlsym(s)
        /\ Cache(s) \in {NULL, dlsym(s)}

C8_Witness ==
    \E s \in Syms :
        /\ dlAvail[s] /\ Len(stores[s]) = 2
        /\ lookupsBy[1][s] = 1 /\ lookupsBy[2][s] = 1
        /\ Done(1) /\ Done(2)

(* C9: on the override path, when the original's inner call fails, the     *)
(* wrapper returns that result with the original's errno, synthesizes      *)
(* nothing and writes nothing to the caller's buffer.                      *)
C9_InnerFailure ==
    \A t \in Threads :
        LET c == thr[t]
            d == Original(c, "valid", PATH_MAX - 1, <<>>)
        IN  (Done(t) /\ OverrideCase(c) /\ dlAvail[c.fn] /\ d.ret < 0)
            => /\ c.ret = d.ret /\ c.errno = d.errno
               /\ c.invoked = 1
               /\ ~c.synth /\ c.out = <<>>
               /\ c.ubuf = FreshBuf(c) /\ ~c.fault

C9_Witness ==
    \E t \in Threads :
        /\ Done(t) /\ OverrideCase(thr[t]) /\ ~exeLink.ok
        /\ thr[t].ret = -1 /\ thr[t].errno = "ENOENT" /\ thr[t].invoked = 1
        /\ thr[t].buf # NULL /\ thr[t].bufsiz = 17

(* C10: the synthesized path in the internal buffer is the first           *)
(* PATH_MAX-1 bytes of the replacement at most, nothing is written past    *)
(* the internal buffers, and the value returned is at most PATH_MAX-1.     *)
C10_BoundedSynthesis ==
    \A t \in Threads :
        LET c == thr[t]
        IN  (Done(t) /\ c.synth)
            => /\ Len(c.out) <= PATH_MAX - 1
               /\ c.out = Take(SynthRef(exeLink.target, environ.str), PATH_MAX - 1)
               /\ c.inner.ret <= PATH_MAX - 1
               /\ c.ret <= PATH_MAX - 1
               /\ ~c.fault

C10_Witness ==
    \E t \in Threads :
        /\ Done(t) /\ thr[t].synth
        /\ Len(SynthRef(exeLink.target, environ.str)) > PATH_MAX - 1
        /\ Len(thr[t].out) = PATH_MAX - 1 /\ thr[t].ret = PATH_MAX - 1
        /\ thr[t].bufsiz > PATH_MAX

====
